---------------------------- MODULE Spec2Model ----------------------------
(***************************************************************************)
(* A model of vsphere_monitor: the run extractor and aggregator            *)
(* (analyzer.py), and the interactive session (tui.py) with its            *)
(* background workers.                                                     *)
(*                                                                         *)
(* Python strings that the code inspects character by character (job       *)
(* names, version tags) are tuples of one-character strings.  Strings the  *)
(* code only compares for equality (run states, worker names) are TLA+     *)
(* strings.  URLs and raw timestamps are tuples of tokens.                 *)
(***************************************************************************)
EXTENDS Integers, Sequences, FiniteSets, TLC

---------------------------------------------------------------------------
(* Bounds of the model.                                                    *)

\* Longest raw document (number of items) the extractor is run on.
MaxItems == 3
\* Most keys pressed while a worker occupies the event loop.
MaxInput == 1
\* Most Worker objects that exist at one time.  A worker exists from
\* run_worker until its last StateChanged message has been handled.
MaxTasks == 2
\* Most words, joined by hyphens, in a job name given to the classifiers.
MaxWords == 2
\* Most chunks the storage server sends a log in.
MaxChunks == 3

---------------------------------------------------------------------------
(* Python values.                                                          *)

\* None/"" for a character string: both are falsy to `if version_filter:`.
None == << >>
\* None for a run state (a TLA+ string); falsy to `if state_filter:`.
NoState == ""
\* A key of a raw JSON object: present with a value, or missing (dict.get
\* then returns its default).  The two missing values differ in the type of
\* the value they stand for.
Some(x) == [has |-> TRUE, v |-> x]
MissingStr == [has |-> FALSE, v |-> ""]
MissingSeq == [has |-> FALSE, v |-> << >>]
\* datetime | None: a datetime is its instant, a natural number; None is -1.
NoTime == -1

Min(a, b) == IF a < b THEN a ELSE b

\* The characters used, in code-point order: Python compares strings by it.
Ascii ==
  <<"-", ".", "0", "1", "2", "3", "4", "5", "6", "7", "8", "9",
    "S", "V",
    "a", "b", "c", "d", "e", "f", "g", "h", "i", "j", "k", "l", "m",
    "n", "o", "p", "q", "r", "s", "t", "u", "v", "w", "x", "y", "z">>

Ord(c) == CHOOSE i \in 1..Len(Ascii) : Ascii[i] = c

Digits == {"0", "1", "2", "3", "4", "5", "6", "7", "8", "9"}

\* str.lower() on one character.
LowerChar(c) == CASE c = "S" -> "s" [] c = "V" -> "v" [] OTHER -> c

Lower(s) == [i \in 1..Len(s) |-> LowerChar(s[i])]

\* a < b on Python strings.
StrLess(a, b) ==
  LET n == Min(Len(a), Len(b))
  IN  \/ /\ \A i \in 1..n : a[i] = b[i]
         /\ Len(a) < Len(b)
      \/ \E i \in 1..n : /\ \A j \in 1..(i - 1) : a[j] = b[j]
                         /\ Ord(a[i]) < Ord(b[i])

\* s[i:] with a 1-based i.
From(s, i) == SubSeq(s, i, Len(s))

\* s.startswith(p)
StartsWith(s, p) == Len(p) <= Len(s) /\ SubSeq(s, 1, Len(p)) = p

\* p in s
Contains(s, p) == \E i \in 1..(Len(s) - Len(p) + 1) : SubSeq(s, i, i + Len(p) - 1) = p

\* list.sort(key=...): a stable sort.  Less is the strict order of the keys;
\* elements with equal keys keep their input order.  The element at input
\* index i lands after every element that is smaller, or equal and earlier.
StableSort(s, Less(_, _)) ==
  LET n == Len(s)
      rank(i) == Cardinality({j \in 1..n :
                    \/ Less(s[j], s[i])
                    \/ (~Less(s[i], s[j]) /\ j < i)})
  IN  [k \in 1..n |-> s[CHOOSE i \in 1..n : rank(i) = k - 1]]

---------------------------------------------------------------------------
(* analyzer.py: classification of a job name.                              *)

unknown == <<"u","n","k","n","o","w","n">>

\* The end (index of the last character consumed) of a match of
\* (?:^|-)(\d+\.\d+)(?:-|$) that starts at index i, and where its group
\* starts; 0 if there is no match at i.  \d+ is greedy and what follows a
\* digit run must not be a digit, so each run is maximal.
RECURSIVE DigitRunEnd(_, _)
DigitRunEnd(s, i) ==
  IF i <= Len(s) /\ s[i] \in Digits THEN DigitRunEnd(s, i + 1) ELSE i - 1

\* A match whose group starts at g: [end, group] or end = 0.
GroupAt(s, g) ==
  LET e1 == DigitRunEnd(s, g)
      e2 == DigitRunEnd(s, e1 + 2)
  IN  IF /\ e1 >= g
         /\ e1 + 1 <= Len(s) /\ s[e1 + 1] = "."
         /\ e2 >= e1 + 2
         /\ (e2 = Len(s) \/ s[e2 + 1] = "-")
      THEN [end |-> IF e2 = Len(s) THEN e2 ELSE e2 + 1,
            group |-> SubSeq(s, g, e2)]
      ELSE [end |-> 0, group |-> << >>]

MatchAt(s, i) ==
  LET atStart == IF i = 1 THEN GroupAt(s, 1) ELSE [end |-> 0, group |-> << >>]
  IN  IF atStart.end # 0 THEN atStart
      ELSE IF i <= Len(s) /\ s[i] = "-" THEN GroupAt(s, i + 1)
      ELSE [end |-> 0, group |-> << >>]

\* _VERSION_RE.findall(s), searching from index i: the non-overlapping
\* matches from left to right; the search resumes where a match ended.
RECURSIVE FindAll(_, _)
FindAll(s, i) ==
  IF i > Len(s) THEN << >>
  ELSE LET m == MatchAt(s, i)
       IN  IF m.end = 0 THEN FindAll(s, i + 1)
           ELSE <<m.group>> \o FindAll(s, m.end + 1)

_extract_ocp_version(job_name) ==
  LET matches == FindAll(job_name, 1)
  IN  IF matches = << >> THEN unknown ELSE matches[Len(matches)]

Prefixes ==
  << <<"p","e","r","i","o","d","i","c","-","c","i","-","o","p","e","n","s","h","i","f","t","-","r","e","l","e","a","s","e","-","m","a","i","n","-">>,
     <<"p","e","r","i","o","d","i","c","-","c","i","-","o","p","e","n","s","h","i","f","t","-">>,
     <<"o","p","e","n","s","h","i","f","t","-">>,
     <<"r","e","l","e","a","s","e","-">> >>

\* The loop over the prefixes: the first one the name starts with is cut.
StripPrefix(name) ==
  IF \E k \in 1..Len(Prefixes) : StartsWith(name, Prefixes[k])
  THEN LET k == CHOOSE k \in 1..Len(Prefixes) :
                  /\ StartsWith(name, Prefixes[k])
                  /\ \A l \in 1..(k - 1) : ~StartsWith(name, Prefixes[l])
       IN  From(name, Len(Prefixes[k]) + 1)
  ELSE name

\* The tests of _extract_variant with "serial" tested before the pair
\* "serial" and "techpreview".
SerialBeforeTpSerial(job_name) ==
  LET name == StripPrefix(job_name)
      has(w) == Contains(name, w)
  IN  IF has(<<"u","p","g","r","a","d","e">>) THEN "upgrade"
      ELSE IF has(<<"s","e","r","i","a","l">>) THEN "serial"
      ELSE IF has(<<"t","e","c","h","p","r","e","v","i","e","w">>) THEN "techpreview"
      ELSE IF has(<<"u","p","i">>) THEN "upi"
      ELSE IF has(<<"s","t","a","t","i","c">>) THEN "static"
      ELSE IF has(<<"c","s","i">>) THEN "csi"
      ELSE IF has(<<"z","o","n","e","s">>) THEN "zones"
      ELSE IF has(<<"a","s","s","i","s","t","e","d">>) THEN "assisted"
      ELSE IF has(<<"o","p","e","r","a","t","o","r">>) THEN "operator"
      ELSE IF has(<<"p","r","f","i","n","d","e","r">>) THEN "prfinder"
      ELSE "e2e"

_extract_variant(job_name) ==
  LET name == StripPrefix(job_name)
      has(w) == Contains(name, w)
  IN  IF has(<<"u","p","g","r","a","d","e">>) THEN "upgrade"
      ELSE IF has(<<"s","e","r","i","a","l">>)
              /\ has(<<"t","e","c","h","p","r","e","v","i","e","w">>) THEN "tp-serial"
      ELSE IF has(<<"t","e","c","h","p","r","e","v","i","e","w">>) THEN "techpreview"
      ELSE IF has(<<"s","e","r","i","a","l">>) THEN "serial"
      ELSE IF has(<<"u","p","i">>) THEN "upi"
      ELSE IF has(<<"s","t","a","t","i","c">>) THEN "static"
      ELSE IF has(<<"c","s","i">>) THEN "csi"
      ELSE IF has(<<"z","o","n","e","s">>) THEN "zones"
      ELSE IF has(<<"a","s","s","i","s","t","e","d">>) THEN "assisted"
      ELSE IF has(<<"o","p","e","r","a","t","o","r">>) THEN "operator"
      ELSE IF has(<<"p","r","f","i","n","d","e","r">>) THEN "prfinder"
      ELSE "e2e"

---------------------------------------------------------------------------
(* analyzer.py: the run extractor.                                         *)

vsphere == <<"v","s","p","h","e","r","e">>

\* Job names of the raw documents.  JobB is spelled with capitals and sorts
\* first; JobC carries no version; JobX is not a vsphere job.
JobA == <<"v","s","p","h","e","r","e","-","4",".","1","8">>
JobB == <<"V","S","p","h","e","r","e","-","4",".","9">>
JobC == <<"v","s","p","h","e","r","e","-","u","p","i">>
JobX == <<"a","w","s","-","4",".","1","8">>

\* A raw timestamp is a tuple of tokens: a date-and-time token followed by a
\* zone token.  The instant a date-and-time token denotes:
DateTokens == {"T1", "T2", "T3"}
Instant(tok) == CASE tok = "T1" -> 1 [] tok = "T2" -> 2 [] tok = "T3" -> 3

\* ts.replace("Z", "+00:00")
ReplaceZ(text) == [i \in 1..Len(text) |-> IF text[i] = "Z" THEN "+00:00" ELSE text[i]]

\* What datetime.fromisoformat accepts: it raises ValueError on the rest.
IsIsoFormat(text) == Len(text) = 2 /\ text[1] \in DateTokens /\ text[2] = "+00:00"

\* Returns [raised, value]: raised when fromisoformat raises ValueError.
_parse_time(ts) ==
  IF ~ts.has \/ ts.v = << >>
  THEN [raised |-> FALSE, value |-> NoTime]
  ELSE LET text == ReplaceZ(ts.v)
       IN  IF IsIsoFormat(text)
           THEN [raised |-> FALSE, value |-> Instant(text[1])]
           ELSE [raised |-> TRUE, value |-> NoTime]

Get(opt, default) == IF opt.has THEN opt.v ELSE default

\* The loop of extract_vsphere_periodic from item i on, with the runs
\* collected so far.  An exception of _parse_time leaves the loop and the
\* function: nothing catches it.
RECURSIVE ExtractLoop(_, _, _)
ExtractLoop(items, i, runs) ==
  IF i > Len(items) THEN [raised |-> FALSE, runs |-> runs]
  ELSE LET item == items[i]
           start == _parse_time(item.startTime)
           completion == _parse_time(item.completionTime)
       IN  IF item.type # "periodic" THEN ExtractLoop(items, i + 1, runs)
           ELSE IF ~Contains(Lower(item.job), vsphere) THEN ExtractLoop(items, i + 1, runs)
           ELSE IF start.raised THEN [raised |-> TRUE, runs |-> << >>]
           ELSE IF start.value = NoTime THEN ExtractLoop(items, i + 1, runs)
           ELSE IF completion.raised THEN [raised |-> TRUE, runs |-> << >>]
           ELSE ExtractLoop(items, i + 1, Append(runs,
                  [job |-> item.job,
                   state |-> Get(item.state, "unknown"),
                   start_time |-> start.value,
                   completion_time |-> completion.value,
                   url |-> Get(item.url, << >>),
                   build_id |-> Get(item.build_id, "")]))

extract_vsphere_periodic(raw) == ExtractLoop(raw, 1, << >>)

---------------------------------------------------------------------------
(* analyzer.py: the aggregator and the derived metrics of a JobSummary.    *)

\* sorted(by_job.items()): the distinct job names in ascending order.
SortedJobs(runs) ==
  LET names == {runs[i].job : i \in 1..Len(runs)}
  IN  [k \in 1..Cardinality(names) |->
         CHOOSE x \in names : Cardinality({y \in names : StrLess(y, x)}) = k - 1]

\* by_job[job_name]: the runs of one job in input order.
RunsOf(runs, job_name) == LET same(r) == r.job = job_name IN SelectSeq(runs, same)

\* The order of a sort without reverse=True.
EarlierStart(a, b) == a.start_time < b.start_time

\* job_runs.sort(key=lambda r: r.start_time, reverse=True)
LaterStart(a, b) == a.start_time > b.start_time
SortRuns(job_runs) == StableSort(job_runs, LaterStart)

\* The dataclass JobSummary; runs defaults to an empty list.
JobSummary(job, ocp_version, job_variant, runs) ==
  [job |-> job, ocp_version |-> ocp_version, job_variant |-> job_variant,
   runs |-> runs]
DefaultRuns == << >>

aggregate(runs) ==
  LET jobs == SortedJobs(runs)
  IN  [k \in 1..Len(jobs) |->
         JobSummary(jobs[k], _extract_ocp_version(jobs[k]),
                    _extract_variant(jobs[k]), SortRuns(RunsOf(runs, jobs[k])))]

\* analyze: [raised, summaries]
analyze(raw) ==
  LET ex == extract_vsphere_periodic(raw)
  IN  IF ex.raised THEN [raised |-> TRUE, summaries |-> << >>]
      ELSE [raised |-> FALSE, summaries |-> aggregate(ex.runs)]

latest_run(s) == s.runs[1]
latest_state(s) == latest_run(s).state
\* The URL of the oldest run.
OldestUrl(s) == s.runs[Len(s.runs)].url

latest_url(s) == latest_run(s).url
total_runs(s) == Len(s.runs)

\* A count that takes "error" for a failure as well.
CountFailuresAndErrors(rs) ==
  Cardinality({i \in 1..Len(rs) : rs[i].state \in {"failure", "error"}})

\* sum(1 for r in self.runs if r.state == "failure")
RECURSIVE CountFailures(_)
CountFailures(rs) ==
  IF rs = << >> THEN 0
  ELSE (IF Head(rs).state = "failure" THEN 1 ELSE 0) + CountFailures(Tail(rs))
failure_count(s) == CountFailures(s.runs)

\* The float failure_count / total_runs as the fraction [num, den]; 0.0 is 0/1.
failure_rate(s) ==
  IF s.runs = << >> THEN [num |-> 0, den |-> 1]
  ELSE [num |-> failure_count(s), den |-> total_runs(s)]

\* Two such floats compare as the fractions do.
RateLess(a, b) == a.num * b.den < b.num * a.den

---------------------------------------------------------------------------
(* formatters.py: the filter and the four sort orders.                     *)

\* sorted(S, key=...) of a set whose keys are pairwise different.
SortSet(S, Less(_, _)) ==
  [k \in 1..Cardinality(S) |->
     CHOOSE x \in S : Cardinality({y \in S : Less(y, x)}) = k - 1]

\* The key (v == "unknown", v): False sorts before True.
VersionKeyLess(a, b) ==
  \/ a # unknown /\ b = unknown
  \/ (a = unknown) = (b = unknown) /\ StrLess(a, b)

\* A filter whose second test is an elif.
FilterFirstGiven(summaries, version_filter, state_filter) ==
  LET byVersion(x) == x.ocp_version = version_filter
      byState(x) == latest_state(x) = state_filter
  IN  IF version_filter # None THEN SelectSeq(summaries, byVersion)
      ELSE IF state_filter # NoState THEN SelectSeq(summaries, byState)
      ELSE summaries

filter_summaries(summaries, version_filter, state_filter) ==
  LET byVersion(x) == x.ocp_version = version_filter
      byState(x) == latest_state(x) = state_filter
      result == IF version_filter # None THEN SelectSeq(summaries, byVersion)
                ELSE summaries
  IN  IF state_filter # NoState THEN SelectSeq(result, byState) ELSE result

\* state_order.get(s.latest_state, 5)
StateRank(st) ==
  CASE st = "failure" -> 0 [] st = "error" -> 1 [] st = "pending" -> 2
    [] st = "aborted" -> 3 [] st = "success" -> 4 [] OTHER -> 5

ByRecent(a, b) == latest_run(a).start_time > latest_run(b).start_time
ByFailureRate(a, b) == RateLess(failure_rate(b), failure_rate(a))
\* The version key without the job name.
ByVersionAlone(a, b) == VersionKeyLess(a.ocp_version, b.ocp_version)

ByVersion(a, b) ==
  \/ VersionKeyLess(a.ocp_version, b.ocp_version)
  \/ a.ocp_version = b.ocp_version /\ StrLess(a.job, b.job)
ByState(a, b) ==
  \/ StateRank(latest_state(a)) < StateRank(latest_state(b))
  \/ StateRank(latest_state(a)) = StateRank(latest_state(b)) /\ StrLess(a.job, b.job)

sort_summaries(summaries, sort_by) ==
  CASE sort_by = "recent" -> StableSort(summaries, ByRecent)
    [] sort_by = "failure_rate" -> StableSort(summaries, ByFailureRate)
    [] sort_by = "version" -> StableSort(summaries, ByVersion)
    [] sort_by = "state" -> StableSort(summaries, ByState)
    [] OTHER -> summaries

---------------------------------------------------------------------------
(* fetcher.py: the location of a build log.  A URL is a tuple of tokens;   *)
(* the marker "/view/gs/" is one token.                                    *)

Marker == "/view/gs/"

\* prow_url.find(marker): the 1-based index of the first marker, 0 if none.
FindMarker(prow_url) ==
  IF \E i \in 1..Len(prow_url) : prow_url[i] = Marker
  THEN CHOOSE i \in 1..Len(prow_url) :
         prow_url[i] = Marker /\ \A j \in 1..(i - 1) : prow_url[j] # Marker
  ELSE 0

\* Returns None (the empty tuple) when the marker is absent.
prow_url_to_build_log_url(prow_url) ==
  LET idx == FindMarker(prow_url)
  IN  IF idx = 0 THEN None
      ELSE <<"https://storage.googleapis.com/">> \o From(prow_url, idx + 1)
             \o <<"/build-log.txt">>

\* What the storage server does with a GET of a log: an HTTP error, or a
\* body, given here as the lines the tail keeps.
LogBodies == {<<"ERROR x", "done">>}

\* fetch_build_log: the results it can return or raise for prow_url.
fetch_build_log(prow_url) ==
  LET log_url == prow_url_to_build_log_url(prow_url)
  IN  IF log_url = None
      THEN {[raised |-> "ValueError", log_url |-> None, lines |-> << >>]}
      ELSE {[raised |-> "HTTPStatusError", log_url |-> None, lines |-> << >>]}
           \cup {[raised |-> "", log_url |-> log_url, lines |-> b] : b \in LogBodies}

\* _ERROR_RE.search(line)
MatchesErrorRe(line) == line \in {"ERROR x"}

---------------------------------------------------------------------------
(* The raw documents the data source serves to the session.                *)

UrlA1 == <<"https://prow.ci.openshift.org", "/view/gs/", "test-platform-results/logs/", "A/1">>
UrlA2 == <<"https://prow.ci.openshift.org", "/view/gs/", "test-platform-results/logs/", "A/2">>
UrlB1 == <<"https://prow.ci.openshift.org", "/view/gs/", "test-platform-results/logs/", "B/1">>
UrlOther == <<"https://example.org/", "A/3">>

Item(type, job, startTime, state, url) ==
  [type |-> type, job |-> job, startTime |-> startTime,
   completionTime |-> MissingSeq, state |-> state, url |-> url,
   build_id |-> MissingStr]

\* Three jobs, with versions 4.18, 4.9 and none.
Doc1 ==
  << Item("periodic", JobA, Some(<<"T1", "Z">>), Some("failure"), Some(UrlA1)),
     Item("periodic", JobB, Some(<<"T2", "Z">>), Some("failure"), Some(UrlB1)),
     Item("periodic", JobA, Some(<<"T3", "+00:00">>), Some("success"), Some(UrlA2)),
     Item("periodic", JobC, Some(<<"T2", "Z">>), Some("pending"), MissingSeq),
     Item("periodic", JobX, Some(<<"T3", "Z">>), Some("failure"), Some(UrlOther)) >>
\* One job, whose result URL lacks the marker.
Doc2 == << Item("periodic", JobA, Some(<<"T3", "Z">>), Some("failure"), Some(UrlOther)) >>
\* No vsphere job.
Doc3 == << Item("periodic", JobX, Some(<<"T3", "Z">>), Some("failure"), Some(UrlOther)) >>
\* A kept item whose start time does not parse.
Doc4 == << Item("periodic", JobA, Some(<<"yesterday">>), Some("failure"), Some(UrlA1)) >>

SessionDocs == {Doc1, Doc2, Doc3, Doc4}

\* _do_reload: fetch raises, or analyze(raw) raises or returns.
_do_reload ==
  {[raised |-> TRUE, summaries |-> << >>]} \cup {analyze(d) : d \in SessionDocs}

---------------------------------------------------------------------------
(* tui.py: the session.                                                    *)
(*                                                                         *)
(* The app and every screen are nodes with a message queue each; node 0 is *)
(* the app, node n the LogViewerScreen in slot n.  One event loop runs the *)
(* handlers and the worker tasks.  run_worker makes an asyncio task of the *)
(* coroutine; _do_reload and _fetch_log await nothing, so once the loop    *)
(* starts such a task it runs nothing else until the task has finished.    *)
(* Keys pressed meanwhile wait in inputQ; a key pressed while the loop is  *)
(* free is handled at once.                                                *)

VARIABLES
  phase,          \* "constructed", "running", "quit" or "crashed"
  error,          \* the exception that ended the app, "" if none
  all_summaries,  \* ProwMonitorApp._all_summaries
  versions,       \* ProwMonitorApp._versions
  version_idx,    \* ProwMonitorApp._version_idx
  state_idx,      \* ProwMonitorApp._state_idx
  sort_idx,       \* ProwMonitorApp._sort_idx
  displayed,      \* ProwMonitorApp._displayed
  screens,        \* the LogViewerScreen objects, by slot
  stack,          \* the screens above the default screen, top last
  tasks,          \* the unfinished workers, in order of creation
  mq,             \* the StateChanged messages of finished workers queued at
                  \* each node; a message holds its worker
  inputQ,         \* the keys pressed while the loop was occupied
  vcount,         \* history: cycle-version steps since the cursor left "no filter"
  stale,          \* history: a popped screen handled the log it fetched while
                  \* the viewer of another URL was on top
  raw,            \* the document given to the extractor
  extracted,      \* what extract_vsphere_periodic returned or raised
  aggregated,     \* what aggregate returned
  pc,             \* the position of the analysis pipeline, or of the call
  args,            \* the arguments of a function called on its own
  ret             \* what that call has computed so far

sessionVars ==
  <<phase, error, all_summaries, versions, version_idx, state_idx, sort_idx,
    displayed, screens, stack, tasks, mq, inputQ, vcount, stale>>
pipelineVars == <<raw, extracted, aggregated, pc, args, ret>>
vars == <<sessionVars, pipelineVars>>

_SORT_KEYS == <<"recent", "version", "failure_rate", "state">>
_STATE_FILTERS == <<NoState, "failure", "success", "pending", "aborted", "error">>

AppNode == 0
\* A screen exists while it is on the stack or has a message queued, and a
\* key waiting or a worker is needed to make one.
MaxScreens == MaxTasks + MaxInput
Loading == [kind |-> "loading", lines |-> 0, log_url |-> None]
FreeScreen ==
  [life |-> "free", job_name |-> << >>, prow_url |-> << >>, status |-> Loading,
   log |-> << >>]

\* The version list of _rebuild_versions for a snapshot.
_rebuild_versions(summaries) ==
  <<None>> \o SortSet({summaries[i].ocp_version : i \in 1..Len(summaries)},
                      VersionKeyLess)

\* The properties _version_filter, _state_filter and _sort_by.
_version_filter(vers, vi) == vers[vi + 1]
_state_filter(si) == _STATE_FILTERS[si + 1]
_sort_by(so) == _SORT_KEYS[so + 1]

\* The cursor left as it is.
NoClamp(vi, vers) == vi

\* min(self._version_idx, len(self._versions) - 1)
ClampVersionIdx(vi, vers) == Min(vi, Len(vers) - 1)

\* A step of two.
StepTwo(vi, vers) == (vi + 2) % Len(vers)

\* (self._version_idx + 1) % len(self._versions)
NextVersionIdx(vi, vers) == (vi + 1) % Len(vers)

\* A worker task occupies the event loop from its start to its end.
Busy == \E i \in 1..Len(tasks) : tasks[i].state = "running"
RunningName == tasks[CHOOSE i \in 1..Len(tasks) : tasks[i].state = "running"].name

\* s without its i-th element.
Remove(s, i) == SubSeq(s, 1, i - 1) \o SubSeq(s, i + 1, Len(s))

\* _refresh_table reading the given snapshot and cursors.  App.query_one
\* searches the active screen only: with a log viewer on top there is no
\* DataTable, query_one raises NoMatches before anything is computed, and
\* the exception ends the app.  So does the IndexError of _version_filter
\* for a cursor beyond the version list.
_refresh_table(summaries, vers, vi, si, so) ==
  IF stack # << >>
  THEN /\ phase' = "crashed"
       /\ error' = "NoMatches"
       /\ displayed' = displayed
  ELSE IF vi >= Len(vers)
  THEN /\ phase' = "crashed"
       /\ error' = "IndexError"
       /\ displayed' = displayed
  ELSE /\ displayed' = sort_summaries(
             filter_summaries(summaries, _version_filter(vers, vi), _state_filter(si)),
             _sort_by(so))
       /\ UNCHANGED <<phase, error>>

\* A cancel that does nothing.
NotCancelled(t) == t

\* Worker.cancel() on a task: Task.cancel().
CancelTask(t) == [t EXCEPT !.state = "cancelled"]

\* A run_worker without exclusive=True.
NotExclusive(ts, node) == ts

\* WorkerManager.cancel_group / cancel_node: every unfinished worker of the
\* node is cancelled (the workers of a node share the group "default").
CancelNode(ts, node) ==
  [i \in 1..Len(ts) |->
     IF ts[i].node = node /\ ts[i].state \in {"pending", "running"}
     THEN CancelTask(ts[i])
     ELSE ts[i]]

\* The workers in existence: the unfinished ones and those whose message
\* waits.  The model makes no more than MaxTasks.
RECURSIVE Queued(_)
Queued(n) == IF n < 0 THEN 0 ELSE Len(mq[n]) + Queued(n - 1)
HasRoom == Len(tasks) + Queued(MaxScreens) < MaxTasks

\* run_worker(..., exclusive=True): cancel the node's workers, make a task.
RunWorker(ts, node, name, arg) ==
  Append(CancelNode(ts, node),
         [node |-> node, name |-> name, state |-> "pending", arg |-> arg])

\* The app object after __init__.
SessionInit ==
  /\ phase = "constructed"
  /\ error = ""
  /\ all_summaries = analyze(Doc1).summaries
  /\ versions = _rebuild_versions(all_summaries)
  /\ version_idx = 0
  /\ state_idx = 0
  /\ sort_idx = 0
  /\ displayed = << >>
  /\ screens = [n \in 1..MaxScreens |-> FreeScreen]
  /\ stack = << >>
  /\ tasks = << >>
  /\ mq = [n \in 0..MaxScreens |-> << >>]
  /\ inputQ = << >>
  /\ vcount = 0
  /\ stale = FALSE

PipelineIdle ==
  /\ raw = << >>
  /\ extracted = [raised |-> FALSE, runs |-> << >>]
  /\ aggregated = << >>
  /\ pc = "idle"
  /\ args = << >>
  /\ ret = << >>

\* The session is given no document to analyse, the analysis no session.
InitSession == SessionInit /\ PipelineIdle

\* ProwMonitorApp.on_mount
on_mount ==
  /\ phase = "constructed"
  /\ phase' = "running"
  /\ displayed' = sort_summaries(
        filter_summaries(all_summaries, _version_filter(versions, version_idx),
                         _state_filter(state_idx)),
        _sort_by(sort_idx))
  /\ UNCHANGED <<error, all_summaries, versions, version_idx, state_idx, sort_idx,
                 screens, stack, tasks, mq, inputQ, vcount, stale>>
  /\ UNCHANGED pipelineVars

\* The keys.  "escape" stands for escape and q, which are bound alike.
Keys == {"r", "v", "s", "o", "c", "escape"}

\* The rows Enter can select: DataTable.RowSelected carries the row the
\* cursor is on.  The table shows the displayed rows and has the focus only
\* when no log viewer covers it.
Rows == IF stack = << >> THEN 0..(Len(displayed) - 1) ELSE {}

\* The terminal driver reads a key while a worker occupies the loop; the
\* key records which worker that was.
Press(k, row) ==
  /\ phase = "running"
  /\ Busy
  /\ Len(inputQ) < MaxInput
  /\ inputQ' = Append(inputQ, [key |-> k, row |-> row, during |-> RunningName])
  /\ UNCHANGED <<phase, error, all_summaries, versions, version_idx, state_idx,
                 sort_idx, displayed, screens, stack, tasks, mq, vcount, stale>>
  /\ UNCHANGED pipelineVars

PressKey == \E k \in Keys : Press(k, 0)
PressEnter == \E row \in Rows : Press("enter", row)

\* The free loop handles key k: the oldest waiting key, or, when none
\* waits, a key pressed now.
Take(k) ==
  /\ phase = "running"
  /\ ~Busy
  /\ \/ inputQ = << >> /\ inputQ' = inputQ
     \/ inputQ # << >> /\ Head(inputQ).key = k /\ inputQ' = Tail(inputQ)
  /\ UNCHANGED pipelineVars

\* ProwMonitorApp.action_reload
action_reload ==
  /\ Take("r")
  /\ HasRoom
  /\ tasks' = RunWorker(tasks, AppNode, "reload", << >>)
  /\ UNCHANGED <<phase, error, all_summaries, versions, version_idx, state_idx,
                 sort_idx, displayed, screens, stack, mq, vcount, stale>>

\* ProwMonitorApp.action_cycle_version
action_cycle_version ==
  /\ Take("v")
  /\ version_idx' = NextVersionIdx(version_idx, versions)
  /\ vcount' = IF version_idx = 0 THEN 1
               ELSE IF vcount = -1 THEN -1 ELSE vcount + 1
  /\ _refresh_table(all_summaries, versions, version_idx', state_idx, sort_idx)
  /\ UNCHANGED <<all_summaries, versions, state_idx, sort_idx, screens,
                 stack, tasks, mq, stale>>

\* ProwMonitorApp.action_cycle_state
action_cycle_state ==
  /\ Take("s")
  /\ state_idx' = (state_idx + 1) % Len(_STATE_FILTERS)
  /\ _refresh_table(all_summaries, versions, version_idx, state_idx', sort_idx)
  /\ UNCHANGED <<all_summaries, versions, version_idx, sort_idx, screens,
                 stack, tasks, mq, vcount, stale>>

\* ProwMonitorApp.action_cycle_sort
action_cycle_sort ==
  /\ Take("o")
  /\ sort_idx' = (sort_idx + 1) % Len(_SORT_KEYS)
  /\ _refresh_table(all_summaries, versions, version_idx, state_idx, sort_idx')
  /\ UNCHANGED <<all_summaries, versions, version_idx, state_idx, screens,
                 stack, tasks, mq, vcount, stale>>

\* ProwMonitorApp.action_clear_filters
action_clear_filters ==
  /\ Take("c")
  /\ version_idx' = 0
  /\ state_idx' = 0
  /\ sort_idx' = 0
  /\ vcount' = 0
  /\ _refresh_table(all_summaries, versions, 0, 0, 0)
  /\ UNCHANGED <<all_summaries, versions, screens, stack, tasks, mq, stale>>

\* Escape or q with the job table on top: the app's binding, action_quit.
action_quit ==
  /\ Take("escape")
  /\ stack = << >>
  /\ phase' = "quit"
  /\ UNCHANGED <<error, all_summaries, versions, version_idx, state_idx, sort_idx,
                 displayed, screens, stack, tasks, mq, vcount, stale>>

\* Escape or q with a log viewer on top: the screen's binding, app.pop_screen.
\* The popped screen is removed, and its unmounting cancels its workers; the
\* object lives on until its message queue is empty.
pop_screen ==
  /\ Take("escape")
  /\ stack # << >>
  /\ LET sid == stack[Len(stack)]
     IN  /\ stack' = SubSeq(stack, 1, Len(stack) - 1)
         /\ screens' = [screens EXCEPT ![sid] =
               IF mq[sid] = << >> THEN FreeScreen ELSE [@ EXCEPT !.life = "popped"]]
         /\ tasks' = CancelNode(tasks, sid)
  /\ UNCHANGED <<phase, error, all_summaries, versions, version_idx, state_idx,
                 sort_idx, displayed, mq, vcount, stale>>

\* ProwMonitorApp.on_data_table_row_selected for row row_idx, and, when it
\* pushes a screen, LogViewerScreen.__init__ and on_mount, which starts the
\* fetch.
RowSelected(row_idx) ==
  /\ IF 0 <= row_idx /\ row_idx < Len(displayed)
        /\ latest_url(displayed[row_idx + 1]) # << >>
     THEN LET summary == displayed[row_idx + 1]
              sid == CHOOSE n \in 1..MaxScreens :
                       screens[n].life = "free"
                       /\ \A m \in 1..(n - 1) : screens[m].life # "free"
          IN  /\ \E n \in 1..MaxScreens : screens[n].life = "free"
              /\ HasRoom
              /\ screens' = [screens EXCEPT ![sid] =
                   [life |-> "open", job_name |-> summary.job,
                    prow_url |-> latest_url(summary), status |-> Loading,
                    log |-> << >>]]
              /\ stack' = Append(stack, sid)
              /\ tasks' = RunWorker(tasks, sid, "fetch_log", latest_url(summary))
     ELSE UNCHANGED <<screens, stack, tasks>>
  /\ UNCHANGED <<phase, error, all_summaries, versions, version_idx, state_idx,
                 sort_idx, displayed, mq, vcount, stale>>

on_data_table_row_selected ==
  /\ Take("enter")
  /\ IF inputQ # << >> THEN RowSelected(Head(inputQ).row)
     ELSE \E row \in Rows : RowSelected(row)

---------------------------------------------------------------------------
(* The worker tasks.                                                       *)

\* The loop starts a pending task: the coroutine begins its blocking call.
StartTask(i) ==
  /\ phase = "running"
  /\ ~Busy
  /\ i <= Len(tasks)
  /\ tasks[i].state = "pending"
  /\ tasks' = [tasks EXCEPT ![i].state = "running"]
  /\ UNCHANGED <<phase, error, all_summaries, versions, version_idx, state_idx,
                 sort_idx, displayed, screens, stack, mq, inputQ, vcount, stale>>
  /\ UNCHANGED pipelineVars

\* What the loop makes of a task cancelled before it started: CancelledError
\* is raised at the coroutine's first step, its body never runs, and the
\* worker posts nothing.  The result is the tasks left.
Reaped(ts, i) == Remove(ts, i)

ReapTask(i) ==
  /\ phase = "running"
  /\ ~Busy
  /\ i <= Len(tasks)
  /\ tasks[i].state = "cancelled"
  /\ tasks' = Reaped(tasks, i)
  /\ UNCHANGED <<phase, error, all_summaries, versions, version_idx, state_idx,
                 sort_idx, displayed, screens, stack, mq, inputQ, vcount, stale>>
  /\ UNCHANGED pipelineVars

\* What the app does with a worker whose coroutine raised: run_worker is
\* called without exit_on_error=False, so the worker hands the exception to
\* the app, which exits.
ExitOnError == TRUE

\* The end of a worker whose coroutine returned or raised: the worker keeps
\* the result, and its StateChanged message goes to the node that ran it.
Finish(i, state, summaries, log_url, lines) ==
  /\ phase = "running"
  /\ tasks[i].state = "running"
  /\ tasks' = Remove(tasks, i)
  /\ mq' = [mq EXCEPT ![tasks[i].node] =
             Append(@, [name |-> tasks[i].name, state |-> state,
                        summaries |-> summaries, log_url |-> log_url,
                        lines |-> lines])]
  /\ IF state = "error" /\ ExitOnError
     THEN phase' = "crashed" /\ error' = "WorkerFailed"
     ELSE UNCHANGED <<phase, error>>
  /\ UNCHANGED <<all_summaries, versions, version_idx, state_idx, sort_idx,
                 displayed, screens, stack, inputQ, vcount, stale>>
  /\ UNCHANGED pipelineVars

\* ProwMonitorApp._do_reload returns or raises.
FinishReload(i) ==
  /\ i <= Len(tasks)
  /\ tasks[i].name = "reload"
  /\ \E out \in _do_reload :
       Finish(i, IF out.raised THEN "error" ELSE "success", out.summaries, None, << >>)

\* LogViewerScreen._fetch_log returns or raises.
FinishFetchLog(i) ==
  /\ i <= Len(tasks)
  /\ tasks[i].name = "fetch_log"
  /\ \E out \in fetch_build_log(tasks[i].arg) :
       Finish(i, IF out.raised # "" THEN "error" ELSE "success",
              << >>, out.log_url, out.lines)

\* ProwMonitorApp.on_worker_state_changed.
on_worker_state_changed ==
  /\ phase = "running"
  /\ ~Busy
  /\ mq[AppNode] # << >>
  /\ mq' = [mq EXCEPT ![AppNode] = Tail(@)]
  /\ LET worker == Head(mq[AppNode])
     IN  IF worker.name # "reload" \/ worker.state = "error"
         THEN UNCHANGED <<phase, error, all_summaries, versions, version_idx,
                          displayed, vcount>>
         ELSE /\ all_summaries' = worker.summaries
              /\ versions' = _rebuild_versions(all_summaries')
              /\ version_idx' = ClampVersionIdx(version_idx, versions')
              /\ vcount' = IF version_idx = 0 THEN 0 ELSE -1
              /\ _refresh_table(all_summaries', versions', version_idx', state_idx, sort_idx)
  /\ UNCHANGED <<state_idx, sort_idx, screens, stack, tasks, inputQ, stale>>
  /\ UNCHANGED pipelineVars

\* The screen on top of the stack, whichever screen handles the message.
TopScreen(sid) == IF stack # << >> THEN stack[Len(stack)] ELSE sid

\* The screen whose widgets the handler of screen sid writes to: its own
\* (self.query_one).
HandlerTarget(sid) == sid

\* LogViewerScreen.on_worker_state_changed of the screen in slot sid.  The
\* message was queued at the screen that ran the worker; a popped screen
\* handles what its queue held when it was popped, and is gone after.
screen_on_worker_state_changed(sid) ==
  /\ phase = "running"
  /\ ~Busy
  /\ screens[sid].life # "free"
  /\ mq[sid] # << >>
  /\ mq' = [mq EXCEPT ![sid] = Tail(@)]
  /\ LET worker == Head(mq[sid])
         target == HandlerTarget(sid)
         written ==
           IF worker.name # "fetch_log" THEN screens
           ELSE IF worker.state = "error"
           THEN [screens EXCEPT ![target].status =
                   [kind |-> "error", lines |-> 0, log_url |-> None]]
           ELSE [screens EXCEPT
                   ![target].status = [kind |-> "loaded", lines |-> Len(worker.lines),
                                       log_url |-> worker.log_url],
                   ![target].log = @ \o [k \in 1..Len(worker.lines) |->
                                       [text |-> worker.lines[k],
                                        red |-> MatchesErrorRe(worker.lines[k])]]]
     IN  screens' = IF screens[sid].life = "popped" /\ Len(mq[sid]) = 1
                    THEN [written EXCEPT ![sid] = FreeScreen]
                    ELSE written
  /\ stale' = (stale \/ (/\ screens[sid].life = "popped"
                          /\ Head(mq[sid]).name = "fetch_log"
                          /\ Head(mq[sid]).state = "success"
                          /\ stack # << >>
                          /\ screens[stack[Len(stack)]].prow_url # screens[sid].prow_url))
  /\ UNCHANGED <<phase, error, all_summaries, versions, version_idx, state_idx,
                 sort_idx, displayed, stack, tasks, inputQ, vcount>>
  /\ UNCHANGED pipelineVars

\* A popped screen closes its queue: what is still queued is dropped.
CloseQueue(sid) ==
  /\ phase = "running"
  /\ ~Busy
  /\ screens[sid].life = "popped"
  /\ mq[sid] # << >>
  /\ mq' = [mq EXCEPT ![sid] = << >>]
  /\ screens' = [screens EXCEPT ![sid] = FreeScreen]
  /\ UNCHANGED <<phase, error, all_summaries, versions, version_idx, state_idx,
                 sort_idx, displayed, stack, tasks, inputQ, vcount, stale>>
  /\ UNCHANGED pipelineVars

---------------------------------------------------------------------------
(* The analysis pipeline run on a raw document: analyze(raw), one function *)
(* at a time.                                                              *)

ItemC(type, job, startTime, completionTime, state, url) ==
  [type |-> type, job |-> job, startTime |-> startTime,
   completionTime |-> completionTime, state |-> state, url |-> url,
   build_id |-> MissingStr]

\* The items of the raw documents: runs of two vsphere jobs at three
\* instants, one instant in both spellings of the zone; items without a
\* start time, with an empty one and with one that does not parse; an item
\* whose completion time does not parse; items of another type or job.
RawItems ==
  { Item("periodic", JobA, Some(<<"T1", "Z">>), Some("failure"), Some(UrlA1)),
    Item("periodic", JobA, Some(<<"T2", "+00:00">>), Some("success"), Some(UrlA2)),
    Item("periodic", JobA, Some(<<"T2", "Z">>), Some("error"), Some(UrlOther)),
    Item("periodic", JobB, Some(<<"T3", "Z">>), MissingStr, MissingSeq),
    Item("periodic", JobA, MissingSeq, Some("failure"), Some(UrlA1)),
    Item("periodic", JobB, Some(<< >>), Some("failure"), Some(UrlB1)),
    Item("periodic", JobA, Some(<<"yesterday">>), Some("failure"), Some(UrlA1)),
    Item("presubmit", JobA, Some(<<"yesterday">>), Some("failure"), Some(UrlA1)),
    Item("periodic", JobX, Some(<<"T3", "Z">>), Some("failure"), Some(UrlOther)),
    ItemC("periodic", JobB, Some(<<"T1", "Z">>), Some(<<"T2">>), Some("aborted"),
          Some(UrlB1)) }

RawDocs == UNION {[1..n -> RawItems] : n \in 0..MaxItems}

PipelineStart ==
  /\ raw \in RawDocs
  /\ extracted = [raised |-> FALSE, runs |-> << >>]
  /\ aggregated = << >>
  /\ pc = "start"
  /\ args = << >>
  /\ ret = << >>

InitAnalyze == SessionInit /\ PipelineStart

\* runs = extract_vsphere_periodic(raw): returns, or raises ValueError.
Extract ==
  /\ pc = "start"
  /\ extracted' = extract_vsphere_periodic(raw)
  /\ pc' = IF extracted'.raised THEN "raised" ELSE "extracted"
  /\ UNCHANGED <<raw, aggregated, args, ret>>
  /\ UNCHANGED sessionVars

\* return aggregate(runs)
Aggregate ==
  /\ pc = "extracted"
  /\ aggregated' = aggregate(extracted.runs)
  /\ pc' = "aggregated"
  /\ UNCHANGED <<raw, extracted, args, ret>>
  /\ UNCHANGED sessionVars

\* JobSummary(job, ocp_version, job_variant): a summary made without runs.
NewJobSummary ==
  /\ pc = "start"
  /\ \E job \in {JobA, JobC} :
       aggregated' = <<JobSummary(job, _extract_ocp_version(job),
                                  _extract_variant(job), DefaultRuns)>>
  /\ pc' = "constructed"
  /\ UNCHANGED <<raw, extracted, args, ret>>
  /\ UNCHANGED sessionVars

NextAnalyze == Extract \/ Aggregate \/ NewJobSummary

---------------------------------------------------------------------------
(* The classifiers called on a job name.                                   *)

\* The words of the job names: the markers of _extract_variant, words of
\* the prefixes, and dotted numbers, of which two stand alone as a version
\* would and two do not.
Words ==
  { <<"u","p","g","r","a","d","e">>,
    <<"s","e","r","i","a","l">>,
    <<"t","e","c","h","p","r","e","v","i","e","w">>,
    <<"u","p","i">>,
    <<"s","t","a","t","i","c">>,
    <<"c","s","i">>,
    <<"z","o","n","e","s">>,
    <<"a","s","s","i","s","t","e","d">>,
    <<"o","p","e","r","a","t","o","r">>,
    <<"p","r","f","i","n","d","e","r">>,
    <<"e","2","e">>,
    <<"o","p","e","n","s","h","i","f","t">>,
    <<"r","e","l","e","a","s","e">>,
    <<"4",".","1","8">>,
    <<"4",".","9">>,
    <<"v","4",".","9">>,
    <<"4",".","1","8",".","1">> }

\* "-".join(ws)
RECURSIVE Join(_)
Join(ws) ==
  IF ws = << >> THEN << >>
  ELSE IF Len(ws) = 1 THEN ws[1]
  ELSE ws[1] \o <<"-">> \o Join(Tail(ws))

JobNames == {Join(ws) : ws \in UNION {[1..n -> Words] : n \in 0..MaxWords}}

InitClassify ==
  /\ SessionInit
  /\ raw = << >>
  /\ extracted = [raised |-> FALSE, runs |-> << >>]
  /\ aggregated = << >>
  /\ pc = "name"
  /\ args \in JobNames
  /\ ret = << >>

\* _extract_ocp_version(job_name)
CallExtractVersion ==
  /\ pc = "name"
  /\ ret' = _extract_ocp_version(args)
  /\ pc' = "version"
  /\ UNCHANGED <<raw, extracted, aggregated, args>>
  /\ UNCHANGED sessionVars

\* _extract_variant(job_name)
CallExtractVariant ==
  /\ pc = "name"
  /\ ret' = _extract_variant(args)
  /\ pc' = "variant"
  /\ UNCHANGED <<raw, extracted, aggregated, args>>
  /\ UNCHANGED sessionVars

NextClassify == CallExtractVersion \/ CallExtractVariant

---------------------------------------------------------------------------
(* The filter and the sort called on a list of summaries.                  *)

JobD == <<"v","s","p","h","e","r","e","-","c","s","i","-","4",".","1","8">>

\* Runs of four jobs: two of version 4.18, one of 4.9, one without version.
FormatItems ==
  { Item("periodic", JobA, Some(<<"T1", "Z">>), Some("failure"), Some(UrlA1)),
    Item("periodic", JobA, Some(<<"T2", "Z">>), Some("success"), Some(UrlA2)),
    Item("periodic", JobB, Some(<<"T3", "Z">>), Some("failure"), Some(UrlB1)),
    Item("periodic", JobC, Some(<<"T2", "Z">>), Some("pending"), MissingSeq),
    Item("periodic", JobD, Some(<<"T1", "Z">>), Some("success"), Some(UrlOther)),
    Item("periodic", JobD, Some(<<"T3", "Z">>), Some("failure"), Some(UrlOther)) }

\* The lists given: what analyze returns, as it is or sorted by a key.
SummaryLists ==
  {sort_summaries(analyze(d).summaries, k) :
     d \in UNION {[1..n -> FormatItems] : n \in 0..MaxItems},
     k \in {"none", "recent", "version", "failure_rate", "state"}}

\* The filters given: versions and states that occur, and one of each that
\* does not.
VersionFilters ==
  {<<"4",".","1","8">>, <<"4",".","9">>, unknown, <<"5",".","0">>}
StateFilters == {"failure", "success", "pending", "error"}

InitFormat ==
  /\ SessionInit
  /\ raw = << >>
  /\ extracted = [raised |-> FALSE, runs |-> << >>]
  /\ aggregated = << >>
  /\ pc = "summaries"
  /\ args \in SummaryLists
  /\ ret = << >>

\* filter_summaries with both filters at once, and one after the other in
\* either order.
CallFilter ==
  /\ pc = "summaries"
  /\ \E v \in VersionFilters, st \in StateFilters :
       ret' = [version_filter |-> v, state_filter |-> st,
               both |-> filter_summaries(args, v, st),
               version_first |->
                 filter_summaries(filter_summaries(args, v, NoState), None, st),
               state_first |->
                 filter_summaries(filter_summaries(args, None, st), v, NoState)]
  /\ pc' = "filtered"
  /\ UNCHANGED <<raw, extracted, aggregated, args>>
  /\ UNCHANGED sessionVars

\* sort_summaries(summaries, sort_by)
CallSort ==
  /\ pc = "summaries"
  /\ \E k \in {_SORT_KEYS[i] : i \in 1..Len(_SORT_KEYS)} :
       ret' = [sort_by |-> k, result |-> sort_summaries(args, k)]
  /\ pc' = "sorted"
  /\ UNCHANGED <<raw, extracted, aggregated, args>>
  /\ UNCHANGED sessionVars

NextFormat == CallFilter \/ CallSort

---------------------------------------------------------------------------
(* fetcher.py: the tail of a streamed log, fetch_build_log from the first  *)
(* chunk on.  Text is a tuple of characters.                               *)

\* The chunks resp.iter_text() can yield.
Chunks ==
  { << >>, <<"a">>, <<"b">>, <<"\n">>, <<"a", "\n">>, <<"\n", "a">>,
    <<"\n", "\n">>, <<"a", "b">> }

\* The values of max_lines.
LineLimits == 1..3

\* A list that keeps every line.
ListAppend(tail, line, maxlen) == Append(tail, line)

\* deque(maxlen=max_lines).append(line): a full deque drops its oldest line.
DequeAppend(tail, line, maxlen) ==
  IF Len(tail) < maxlen THEN Append(tail, line)
  ELSE IF maxlen = 0 THEN tail
  ELSE Append(Tail(tail), line)

\* buf.find("\n"), 1-based; 0 if buf holds no newline.
FirstNewline(buf) ==
  IF \E i \in 1..Len(buf) : buf[i] = "\n"
  THEN CHOOSE i \in 1..Len(buf) : buf[i] = "\n" /\ \A j \in 1..(i - 1) : buf[j] # "\n"
  ELSE 0

InitTail ==
  /\ SessionInit
  /\ raw = << >>
  /\ extracted = [raised |-> FALSE, runs |-> << >>]
  /\ aggregated = << >>
  /\ pc = "for"
  /\ args \in [chunks : UNION {[1..n -> Chunks] : n \in 0..MaxChunks},
               max_lines : LineLimits]
  /\ ret = [buf |-> << >>, tail |-> << >>, next |-> 1]

\* for chunk in resp.iter_text(): buf += chunk
ForChunk ==
  /\ pc = "for"
  /\ ret.next <= Len(args.chunks)
  /\ ret' = [ret EXCEPT !.buf = @ \o args.chunks[ret.next], !.next = @ + 1]
  /\ pc' = "while"
  /\ UNCHANGED <<raw, extracted, aggregated, args>>
  /\ UNCHANGED sessionVars

\* while "\n" in buf: line, buf = buf.split("\n", 1); tail.append(line)
WhileNewline ==
  /\ pc = "while"
  /\ FirstNewline(ret.buf) # 0
  /\ LET n == FirstNewline(ret.buf)
     IN  ret' = [ret EXCEPT
                   !.buf = SubSeq(ret.buf, n + 1, Len(ret.buf)),
                   !.tail = DequeAppend(@, SubSeq(ret.buf, 1, n - 1), args.max_lines)]
  /\ UNCHANGED <<raw, extracted, aggregated, args, pc>>
  /\ UNCHANGED sessionVars

\* The while loop ends: buf holds no newline.
WhileEnd ==
  /\ pc = "while"
  /\ FirstNewline(ret.buf) = 0
  /\ pc' = "for"
  /\ UNCHANGED <<raw, extracted, aggregated, args, ret>>
  /\ UNCHANGED sessionVars

\* The stream is exhausted: if buf: tail.append(buf); return list(tail)
ReturnTail ==
  /\ pc = "for"
  /\ ret.next > Len(args.chunks)
  /\ ret' = IF ret.buf # << >>
            THEN [ret EXCEPT !.tail = DequeAppend(@, ret.buf, args.max_lines)]
            ELSE ret
  /\ pc' = "returned"
  /\ UNCHANGED <<raw, extracted, aggregated, args>>
  /\ UNCHANGED sessionVars

NextTail == ForChunk \/ WhileNewline \/ WhileEnd \/ ReturnTail

---------------------------------------------------------------------------
(* The specifications.                                                     *)

\* The session whose user leaves the log viewer alone and presses no key
\* while a worker occupies the loop: the cursors and the reload.
NextCursors ==
  \/ on_mount
  \/ action_reload
  \/ action_cycle_version
  \/ action_cycle_state
  \/ action_cycle_sort
  \/ action_clear_filters
  \/ action_quit
  \/ \E i \in 1..MaxTasks : StartTask(i)
  \/ \E i \in 1..MaxTasks : ReapTask(i)
  \/ \E i \in 1..MaxTasks : FinishReload(i)
  \/ on_worker_state_changed

\* The session whose user leaves the three cursors alone and presses no key
\* while a worker occupies the loop: the log viewer and the reload.
NextViewer ==
  \/ on_mount
  \/ action_reload
  \/ action_quit
  \/ pop_screen
  \/ on_data_table_row_selected
  \/ \E i \in 1..MaxTasks : StartTask(i)
  \/ \E i \in 1..MaxTasks : ReapTask(i)
  \/ \E i \in 1..MaxTasks : FinishReload(i)
  \/ \E i \in 1..MaxTasks : FinishFetchLog(i)
  \/ on_worker_state_changed
  \/ \E sid \in 1..MaxScreens : screen_on_worker_state_changed(sid)
  \/ \E sid \in 1..MaxScreens : CloseQueue(sid)

\* The session whose user never reloads and presses no key while a worker
\* occupies the loop: the cursors and the log viewer.
NextSelect ==
  \/ on_mount
  \/ action_cycle_version
  \/ action_cycle_state
  \/ action_cycle_sort
  \/ action_clear_filters
  \/ pop_screen
  \/ on_data_table_row_selected
  \/ \E i \in 1..MaxTasks : StartTask(i)
  \/ \E i \in 1..MaxTasks : ReapTask(i)
  \/ \E i \in 1..MaxTasks : FinishFetchLog(i)
  \/ \E sid \in 1..MaxScreens : screen_on_worker_state_changed(sid)
  \/ \E sid \in 1..MaxScreens : CloseQueue(sid)

\* The session of NextCursors whose user also presses keys while a worker
\* occupies the loop.
NextTyping == NextCursors \/ PressKey

Next == NextTyping \/ NextViewer \/ NextSelect \/ PressEnter \/ NextAnalyze \/ NextClassify \/ NextFormat \/ NextTail

Init == InitSession \/ InitAnalyze \/ InitClassify \/ InitFormat \/ InitTail

Spec == Init /\ [][Next]_vars
SpecCursors == InitSession /\ [][NextCursors]_vars
SpecViewer == InitSession /\ [][NextViewer]_vars
SpecTyping == InitSession /\ [][NextTyping]_vars
SpecSelect == InitSession /\ [][NextSelect]_vars
SpecAnalyze == InitAnalyze /\ [][NextAnalyze]_vars
SpecClassify == InitClassify /\ [][NextClassify]_vars
SpecFormat == InitFormat /\ [][NextFormat]_vars
SpecTail == InitTail /\ [][NextTail]_vars

---------------------------------------------------------------------------
(* The properties.                                                         *)

\* C1: a log viewer that is open and shows a fetched log shows the log of
\* its own URL, once: the status line names the build log of the screen's
\* own prow URL and the log holds as many lines as the status line says.
\* The result of a fetch started for another job never reaches it.
C1_OverlayShowsOwnLog ==
  \A n \in 1..MaxScreens :
    (screens[n].life = "open" /\ screens[n].status.kind = "loaded") =>
      /\ screens[n].status.log_url = prow_url_to_build_log_url(screens[n].prow_url)
      /\ Len(screens[n].log) = screens[n].status.lines

\* The log fetched for a viewer the user has left was delivered while the
\* viewer of another URL was on top.
C1_LateResultUnderOtherViewer == stale /\ stack # << >>

\* C2: a key pressed while a reload occupied the loop has been handled by
\* the time the result of that reload is applied.  The step that handles
\* the only queued worker message finds no such key waiting.
C2_InputHandledBeforeResult ==
  [][(Len(mq[AppNode]) = 1 /\ mq'[AppNode] = << >>) =>
       \A k \in 1..Len(inputQ) : inputQ[k].during # "reload"]_vars

\* C3: at most one reload is in flight (pending or running), and no two
\* workers fetch at the same time.
C3_OneReloadInFlight ==
  /\ Cardinality({i \in 1..Len(tasks) :
                    /\ tasks[i].name = "reload"
                    /\ tasks[i].state \in {"pending", "running"}}) <= 1
  /\ Cardinality({i \in 1..Len(tasks) : tasks[i].state = "running"}) <= 1

\* A reload was requested while an earlier one had not started.
C3_SecondRequestWhilePending ==
  \E i, j \in 1..Len(tasks) :
    /\ i < j
    /\ tasks[i].name = "reload" /\ tasks[i].state = "cancelled"
    /\ tasks[j].name = "reload" /\ tasks[j].state = "pending"

\* C4: the version list is None followed by the distinct versions of the
\* snapshot in ascending order ("unknown" last), and the version cursor is
\* an index into it.
C4_VersionListAndCursor ==
  LET present == {all_summaries[i].ocp_version : i \in 1..Len(all_summaries)}
  IN  /\ Len(versions) = Cardinality(present) + 1
      /\ versions[1] = None
      /\ {versions[k] : k \in 2..Len(versions)} = present
      /\ \A i, j \in 2..Len(versions) :
           i < j => VersionKeyLess(versions[i], versions[j])
      /\ 0 <= version_idx
      /\ version_idx < Len(versions)

\* A reload replaced the snapshot by one without jobs while the cursor was
\* on a version.
C4_CursorClampedToNone ==
  /\ all_summaries = << >>
  /\ version_idx = 0
  /\ vcount = -1

\* C5: a reload that fails does not end the session.
C5_ReloadFailureNotFatal == ~(phase = "crashed" /\ error = "WorkerFailed")

C7_CycleReturnsAfterN ==
  LET N == Cardinality({all_summaries[i].ocp_version :
                          i \in 1..Len(all_summaries)}) + 1
  IN  vcount > 0 => /\ vcount <= N
                    /\ (version_idx = 0 <=> vcount = N)

\* The cursor went round a list of at least two versions.
C7_FullCycle ==
  /\ version_idx = 0
  /\ vcount = Len(versions)
  /\ Len(versions) >= 3

\* C8: the runs of every summary aggregate returns are the runs of its job,
\* by start time descending; the latest run has the greatest start time of
\* the job's runs and the latest state is the state of such a run.
C8_RunsSortedDescending ==
  pc = "aggregated" =>
    \A k \in 1..Len(aggregated) :
      LET s == aggregated[k]
          mine == {i \in 1..Len(extracted.runs) : extracted.runs[i].job = s.job}
      IN  /\ Len(s.runs) = Cardinality(mine)
          /\ \A i \in mine : \E j \in 1..Len(s.runs) : s.runs[j] = extracted.runs[i]
          /\ \A i, j \in 1..Len(s.runs) :
               i < j => s.runs[i].start_time >= s.runs[j].start_time
          /\ \A i \in mine : latest_run(s).start_time >= extracted.runs[i].start_time
          /\ \E i \in mine :
               /\ extracted.runs[i].state = latest_state(s)
               /\ \A j \in mine :
                    extracted.runs[i].start_time >= extracted.runs[j].start_time

\* aggregate had to reorder the runs of a job.
C8_RunsReordered ==
  /\ pc = "aggregated"
  /\ \E k \in 1..Len(aggregated) :
       /\ Len(aggregated[k].runs) >= 2
       /\ aggregated[k].runs # RunsOf(extracted.runs, aggregated[k].job)

\* C9: total_runs is the length of runs, failure_count the number of runs
\* in state "failure" and of no other state, and failure_rate their
\* quotient, 0 when there are no runs.
C9_DerivedMetrics ==
  pc \in {"aggregated", "constructed"} =>
    \A k \in 1..Len(aggregated) :
      LET s == aggregated[k]
          failures == {i \in 1..Len(s.runs) : s.runs[i].state = "failure"}
          rate == failure_rate(s)
      IN  /\ total_runs(s) = Len(s.runs)
          /\ failure_count(s) = Cardinality(failures)
          /\ rate.den > 0
          /\ IF Len(s.runs) = 0 THEN rate.num = 0
             ELSE rate.num * Len(s.runs) = Cardinality(failures) * rate.den

\* A summary with a failed run and a run in state "error".
C9_FailureAmongOtherStates ==
  /\ pc = "aggregated"
  /\ \E k \in 1..Len(aggregated) :
       /\ \E i \in 1..Len(aggregated[k].runs) : aggregated[k].runs[i].state = "failure"
       /\ \E i \in 1..Len(aggregated[k].runs) : aggregated[k].runs[i].state = "error"

\* C10: in a document whose items carry no completion time, the extractor
\* does not fail, and returns the runs of the periodic vsphere items that
\* have a start time that parses, in order.
C10_BadStartTimeDropped ==
  LET parses(ts) == /\ ts.has
                    /\ Len(ts.v) = 2
                    /\ ts.v[1] \in DateTokens
                    /\ ts.v[2] \in {"Z", "+00:00"}
      usable(item) == /\ item.type = "periodic"
                      /\ Contains(Lower(item.job), vsphere)
                      /\ parses(item.startTime)
      rest == SelectSeq(raw, usable)
  IN  (/\ pc \in {"extracted", "raised"}
       /\ \A i \in 1..Len(raw) : ~raw[i].completionTime.has)
      => /\ ~extracted.raised
         /\ Len(extracted.runs) = Len(rest)
         /\ \A i \in 1..Len(rest) :
              /\ extracted.runs[i].job = rest[i].job
              /\ extracted.runs[i].start_time = Instant(rest[i].startTime.v[1])

\* C11: the variant is the first of upgrade, tp-serial, techpreview,
\* serial, upi, static, csi, zones, assisted, operator, prfinder whose
\* markers the name holds (tp-serial asks for "serial" and "techpreview"),
\* and e2e when the name holds none.  No prefix holds a marker and no marker
\* a hyphen, so the stripped name holds the markers the whole name holds.
C11_VariantByPriority ==
  LET priority ==
        << <<"upgrade", {<<"u","p","g","r","a","d","e">>}>>,
           <<"tp-serial", {<<"s","e","r","i","a","l">>,
                           <<"t","e","c","h","p","r","e","v","i","e","w">>}>>,
           <<"techpreview", {<<"t","e","c","h","p","r","e","v","i","e","w">>}>>,
           <<"serial", {<<"s","e","r","i","a","l">>}>>,
           <<"upi", {<<"u","p","i">>}>>,
           <<"static", {<<"s","t","a","t","i","c">>}>>,
           <<"csi", {<<"c","s","i">>}>>,
           <<"zones", {<<"z","o","n","e","s">>}>>,
           <<"assisted", {<<"a","s","s","i","s","t","e","d">>}>>,
           <<"operator", {<<"o","p","e","r","a","t","o","r">>}>>,
           <<"prfinder", {<<"p","r","f","i","n","d","e","r">>}>> >>
      fits(k) == \A w \in priority[k][2] : Contains(args, w)
  IN  pc = "variant" =>
        /\ (\A k \in 1..Len(priority) : ~fits(k)) => ret = "e2e"
        /\ \A k \in 1..Len(priority) :
             (fits(k) /\ \A l \in 1..(k - 1) : ~fits(l)) => ret = priority[k][1]

\* A name with "serial" and "techpreview" was classified.
C11_SerialAndTechpreview ==
  /\ pc = "variant"
  /\ Contains(args, <<"s","e","r","i","a","l">>)
  /\ Contains(args, <<"t","e","c","h","p","r","e","v","i","e","w">>)
  /\ ret = "tp-serial"

\* C12: the version is the last substring of the name made of digits, a
\* dot and digits that begins at the start of the name or after a hyphen
\* and ends at the end of the name or before a hyphen; "unknown" if there
\* is none.
C12_LastVersionSubstring ==
  LET digits(a, b) == a <= b /\ \A i \in a..b : args[i] \in Digits
      isVersion(g, e) ==
        /\ \E d \in (g + 1)..(e - 1) :
             args[d] = "." /\ digits(g, d - 1) /\ digits(d + 1, e)
        /\ (g = 1 \/ args[g - 1] = "-")
        /\ (e = Len(args) \/ args[e + 1] = "-")
      found == {p \in (1..Len(args)) \X (1..Len(args)) : isVersion(p[1], p[2])}
  IN  pc = "version" =>
        IF found = {} THEN ret = unknown
        ELSE \E p \in found :
               /\ \A q \in found : q[1] <= p[1]
               /\ ret = SubSeq(args, p[1], p[2])

\* C13: filtering by version and then by state, by state and then by
\* version, and by both at once give the same list: the summaries of the
\* version whose latest run is in the state, in input order.
C13_FilterOrderIndependent ==
  LET keep(x) == /\ x.ocp_version = ret.version_filter
                 /\ x.runs[1].state = ret.state_filter
  IN  pc = "filtered" =>
        /\ ret.version_first = ret.state_first
        /\ ret.state_first = ret.both
        /\ ret.both = SelectSeq(args, keep)

\* Each of the two filters alone drops a summary the other keeps, and one
\* summary passes both.
C13_BothFiltersBite ==
  /\ pc = "filtered"
  /\ ret.both # << >>
  /\ \E i \in 1..Len(args) :
       /\ args[i].ocp_version = ret.version_filter
       /\ args[i].runs[1].state # ret.state_filter
  /\ \E i \in 1..Len(args) :
       /\ args[i].ocp_version # ret.version_filter
       /\ args[i].runs[1].state = ret.state_filter

\* C14: the sort by "version" returns the summaries it was given, those
\* without a version after those with one, the versions ascending as
\* strings, and the summaries of one version by job name ascending.
C14_SortByVersion ==
  (pc = "sorted" /\ ret.sort_by = "version") =>
    LET out == ret.result
    IN  /\ Len(out) = Len(args)
        /\ \A x \in {args[i] : i \in 1..Len(args)} :
             Cardinality({i \in 1..Len(out) : out[i] = x})
               = Cardinality({i \in 1..Len(args) : args[i] = x})
        /\ \A i, j \in 1..Len(out) :
             i < j =>
               /\ out[i].ocp_version = unknown => out[j].ocp_version = unknown
               /\ (/\ out[i].ocp_version # out[j].ocp_version
                   /\ out[j].ocp_version # unknown)
                  => StrLess(out[i].ocp_version, out[j].ocp_version)
               /\ out[i].ocp_version = out[j].ocp_version
                  => StrLess(out[i].job, out[j].job)

\* The sort moved a summary, among summaries of one version and one without.
C14_SortReorders ==
  /\ pc = "sorted"
  /\ ret.sort_by = "version"
  /\ ret.result # args
  /\ \E i \in 1..Len(args) : args[i].ocp_version = unknown
  /\ \E i, j \in 1..Len(args) :
       i # j /\ args[i].ocp_version = args[j].ocp_version

\* C15: the tail never holds more than max_lines lines, and what is
\* returned is the last min(max_lines, total) lines of the whole stream in
\* order, whatever the chunks.  The lines of the stream end at its newlines;
\* text after the last newline is a line too.
C15_TailIsLastLines ==
  LET RECURSIVE Concat(_)
      Concat(cs) == IF cs = << >> THEN << >> ELSE Head(cs) \o Concat(Tail(cs))
      whole == Concat(args.chunks)
      newlines == {i \in 1..Len(whole) : whole[i] = "\n"}
      ends == newlines \cup (IF whole # << >> /\ whole[Len(whole)] # "\n"
                             THEN {Len(whole) + 1} ELSE {})
      total == Cardinality(ends)
      end(k) == CHOOSE e \in ends : Cardinality({f \in ends : f < e}) = k - 1
      line(k) == SubSeq(whole, IF k = 1 THEN 1 ELSE end(k - 1) + 1, end(k) - 1)
      m == Min(args.max_lines, total)
  IN  (pc \in {"for", "while", "returned"}) =>
        /\ Len(ret.tail) <= args.max_lines
        /\ pc = "returned" =>
             ret.tail = [k \in 1..m |-> line(total - m + k)]

\* A stream of more lines than max_lines was read to its end; it ended in
\* a line without newline, and a chunk ended inside a line.
C15_LongStreamRead ==
  /\ pc = "returned"
  /\ Len(ret.tail) = args.max_lines
  /\ ret.buf # << >>
  /\ Cardinality({k \in 1..Len(args.chunks) :
                    \E i \in 1..Len(args.chunks[k]) : args.chunks[k][i] = "\n"})
       >= args.max_lines
  /\ \E k \in 1..(Len(args.chunks) - 1) :
       /\ args.chunks[k] # << >>
       /\ args.chunks[k][Len(args.chunks[k])] # "\n"
       /\ args.chunks[k + 1] # << >>
       /\ args.chunks[k + 1][1] # "\n"

\* C16: a log fetch that failed, for a URL without the marker or for an
\* HTTP error, leaves the session running.
C16_FetchFailureKeepsSession ==
  \A n \in 1..MaxScreens :
    \A k \in 1..Len(mq[n]) :
      (mq[n][k].name = "fetch_log" /\ mq[n][k].state = "error")
        => phase = "running"

\* C17: a row selection opens a viewer exactly when the row is one of the
\* displayed rows and the URL of its latest run is not empty.  The viewer
\* is then for the job and the URL of that row, one fetch_log worker is
\* made for it with that URL and no other worker changes; otherwise
\* nothing changes.  The rows are those of the current cursors.
C17_RowSelection ==
  [][\A row \in 0..(Len(displayed) - 1) :
       (Take("enter") /\ RowSelected(row)) =>
         LET summary == displayed[row + 1]
             url == summary.runs[1].url
             top == stack'[Len(stack')]
         IN  /\ displayed = sort_summaries(
                   filter_summaries(all_summaries, versions[version_idx + 1],
                                    _STATE_FILTERS[state_idx + 1]),
                   _SORT_KEYS[sort_idx + 1])
             /\ IF url # << >>
                THEN /\ stack' = Append(stack, top)
                     /\ screens'[top].job_name = summary.job
                     /\ screens'[top].prow_url = url
                     /\ screens'[top].status.kind = "loading"
                     /\ tasks' = Append(tasks, [node |-> top, name |-> "fetch_log",
                                               state |-> "pending", arg |-> url])
                ELSE UNCHANGED <<stack, screens, tasks>>]_vars

\* A viewer was opened from a table that a version filter and a sort key
\* other than the first had rearranged, and its fetch has not started.
C17_OpenedUnderCursors ==
  /\ phase = "running"
  /\ version_idx # 0
  /\ sort_idx # 0
  /\ stack # << >>
  /\ \E i \in 1..Len(tasks) :
       /\ tasks[i].node = stack[Len(stack)]
       /\ tasks[i].state = "pending"
       /\ tasks[i].arg = screens[stack[Len(stack)]].prow_url

\* C18: once mounted, the displayed rows are the snapshot filtered and
\* sorted by the three cursors.
C18_DisplayedFollowsCursors ==
  phase # "constructed" =>
    displayed = sort_summaries(
       filter_summaries(all_summaries, versions[version_idx + 1],
                        _STATE_FILTERS[state_idx + 1]),
       _SORT_KEYS[sort_idx + 1])

=============================================================================
